---------------------------- MODULE Spec2Model ----------------------------
(***************************************************************************)
(* Per-guild music playback of src/cogs/music.py (class Music, class       *)
(* MusicPlayer, class PlayerView) and the shutdown hook of src/bot.py.     *)
(*                                                                         *)
(* Time is counted in ticks, Hz ticks to the second; time.time() is `now`. *)
(* A Song object is a record [id, url, duration]: id is the object's       *)
(* identity (every get_song allocates a new object), url the canonical     *)
(* URL, duration in seconds.  None is NoSong (id 0).                       *)
(*                                                                         *)
(* Scope of the model.                                                     *)
(*  - The voice transport (discord.VoiceClient) and the chat platform are  *)
(*    external; the model keeps of them what the code reads and calls:     *)
(*    is_connected / is_playing / is_paused, play / pause / resume / stop, *)
(*    the `after` callback that every ended player delivers once, and the  *)
(*    set of live messages.  VoiceClient.play raises when the client is    *)
(*    not connected or already playing.                                    *)
(*  - A guild has one voice connection in its lifetime: after a            *)
(*    disconnect the guild is not connected again.                         *)
(*  - play_next runs on the transport's thread; one call of it is one      *)
(*    step (the interleaving of its bytecodes with the loop is not         *)
(*    modelled).  Coroutines on the event loop yield at their awaits of    *)
(*    network calls and sleeps; the awaits that only acknowledge an        *)
(*    interaction (defer, send_message, followup.send) are not yield       *)
(*    points of the model.                                                 *)
(*  - The ledger file is read and written without I/O failure; a missing   *)
(*    file is the empty mapping.                                           *)
(*  - Comparisons of float seconds are comparisons of ticks; 0.2*duration  *)
(*    is exact (elapsed < 0.2*d  iff  5*elapsed < d).                      *)
(***************************************************************************)
EXTENDS Integers, Sequences, FiniteSets, TLC

\* ------------------------------------------------------------ bounds
\* ticks per second
Hz == 2
\* time.time() when the process starts, in ticks (any value far from 0)
Epoch == 1000
\* seconds the clock may advance in a run of SpecFifo
MaxTime == 20
\* Song objects get_song may allocate in a run of SpecFifo
MaxSongs == 3
\* message ids a ledger left by an earlier run may name
MaxMsgs == 3

\* ------------------------------------------------- program constants
HISTORY_MAXLEN == 50
AUTO_DISCONNECT_DELAY == 120
RETRY_DELAY == 1

Guilds == {"g1", "g2", "g3"}

NoSong == [id |-> 0, url |-> "", duration |-> 0]

Song(id, url, duration) == [id |-> id, url |-> url, duration |-> duration]

LoopModes == {"off", "one", "all"}

VARIABLES
    now,              \* time.time(), in ticks
    players,          \* Music.players: guild -> MusicPlayer
    disconnect_tasks, \* Music.disconnect_tasks: guild -> the timer task
    vc,               \* guild.voice_client and its audio player, per guild
    ledger,           \* player_messages.json: guild -> message id
    messages,         \* the control messages that exist on the platform
    tasks,            \* coroutines scheduled on the event loop, oldest first
    play_cmd,         \* the /play command in flight, per guild
    next_id,          \* Song objects allocated so far
    sweep,            \* Music._cleanup_orphaned_messages: its position
    fifo,             \* observer: the songs /play appended and the songs play_next popped
    mark,             \* observer: a snapshot of (current, queue) and the advances since
    shown,            \* observer: the elapsed seconds on display just before the last pause
    seen,             \* observer: what has happened so far in the run
    last              \* observer: the last step and the path it took

vars == <<now, players, disconnect_tasks, vc, ledger, messages, tasks,
          play_cmd, next_id, sweep, fifo, mark, shown, seen, last>>

\* ------------------------------------------------------------ helpers
Min(a, b) == IF a < b THEN a ELSE b

Max(a, b) == IF a > b THEN a ELSE b

Put(f, k, v) == [x \in (DOMAIN f) \cup {k} |-> IF x = k THEN v ELSE f[x]]

Drop(f, k) == [x \in (DOMAIN f) \ {k} |-> f[x]]

RemoveAt(seq, i) == SubSeq(seq, 1, i - 1) \o SubSeq(seq, i + 1, Len(seq))

Front(seq) == SubSeq(seq, 1, Len(seq) - 1)

\* The program state the handlers read and write, as one value.
St == [now |-> now, players |-> players, disconnect_tasks |-> disconnect_tasks,
       vc |-> vc, ledger |-> ledger, messages |-> messages, tasks |-> tasks,
       play_cmd |-> play_cmd, next_id |-> next_id]

\* ------------------------------------------------------- MusicPlayer
MusicPlayer == [queue |-> <<>>, history |-> <<>>, current |-> NoSong,
                loop_mode |-> "off", start_time |-> 0, paused_time |-> 0,
                is_paused |-> FALSE, skip_next_callback |-> FALSE,
                player_message |-> 0, retry_count |-> 0, text_channel |-> FALSE]

\* deque(maxlen=50).append: a full deque drops its leftmost item.
HistoryAppendDropNewest(h, x) ==
    IF Len(h) >= HISTORY_MAXLEN THEN Front(h) \o <<x>> ELSE Append(h, x)

HistoryAppend(h, x) ==
    IF Len(h) >= HISTORY_MAXLEN THEN Tail(h) \o <<x>> ELSE Append(h, x)

\* Music.get_player: create the guild's player when it has none.
get_player(s, g) ==
    IF g \in DOMAIN s.players THEN s
    ELSE [s EXCEPT !.players = Put(s.players, g, MusicPlayer)]

SetPlayer(s, g, p) == [s EXCEPT !.players = Put(s.players, g, p)]

\* ---------------------------------------------------------- transport
NoVoice == [state |-> "none", track |-> NoSong, pending |-> 0]

is_connected(v) == v.state \in {"idle", "playing", "paused"}

is_playing(v) == v.state = "playing"

is_paused(v) == v.state = "paused"

\* VoiceClient.play raises ClientException unless connected and not playing.
CanPlay(v) == is_connected(v) /\ ~is_playing(v)

VcPlay(v, song) == [v EXCEPT !.state = "playing", !.track = song]

\* VoiceClient.stop: the player, if one is running or paused, ends and its
\* thread calls `after` once.
VcStop(v) ==
    IF v.state \in {"playing", "paused"}
    THEN [v EXCEPT !.state = "idle", !.track = NoSong, !.pending = @ + 1]
    ELSE v

VcPause(v) == [v EXCEPT !.state = "paused"]

VcResume(v) == [v EXCEPT !.state = "playing"]

\* VoiceClient.disconnect: stops the player and closes the connection.
VcDisconnect(v) == [VcStop(v) EXCEPT !.state = "closed"]

\* ----------------------------------------------------- scheduled tasks
Task(kind, g) == [kind |-> kind, g |-> g, pc |-> "new", wake |-> 0,
                  song |-> NoSong, orphan |-> FALSE]

\* asyncio.run_coroutine_threadsafe(coro, self.bot.loop)
Schedule(s, t) == [s EXCEPT !.tasks = Append(@, t)]


\* ---------------------------------------------------------- play_next
\* The premature-end test of play_next; elapsed in ticks, duration in seconds.
IsPrematureEndNoFloor(elapsed, expected_duration) ==
    \/ elapsed < 15 * Hz
    \/ expected_duration > 0 /\ 5 * elapsed < expected_duration * Hz
                             /\ elapsed < 30 * Hz

IsPrematureEnd(elapsed, expected_duration) ==
    \/ elapsed < 15 * Hz /\ expected_duration > 20
    \/ expected_duration > 0 /\ 5 * elapsed < expected_duration * Hz
                             /\ elapsed < 30 * Hz

\* The retry limit of play_next's premature-end check.
RetryAllowedOneMore(retry_count) == retry_count <= 2

RetryAllowed(retry_count) == retry_count < 2

\* The track play_next takes from the queue.
PopNextFromRight(queue) == queue[Len(queue)]

PopNext(queue) == Head(queue)

RestAfterPop(queue) == Tail(queue)

\* play_next, lines 471-476: replay the current track.
LoopOneBranchDrains(s, g, p) ==
    LET q == [p EXCEPT !.history = HistoryAppend(@, p.current)]
    IN  IF CanPlay(s.vc[g])
        THEN [s |-> [SetPlayer(s, g, [q EXCEPT !.start_time = s.now])
                       EXCEPT !.vc[g] = VcPlay(@, p.current)],
              path |-> "loop_one"]
        ELSE [s |-> SetPlayer(s, g, q), path |-> "raised_loop"]

LoopOneBranch(s, g, p) ==
    IF CanPlay(s.vc[g])
    THEN [s |-> [SetPlayer(s, g, [p EXCEPT !.start_time = s.now])
                   EXCEPT !.vc[g] = VcPlay(@, p.current)],
          path |-> "loop_one"]
    ELSE [s |-> SetPlayer(s, g, p), path |-> "raised_loop"]

\* play_next, lines 482-483: with loop mode all the finished track goes to
\* the back of the queue.
RequeueAtFront(p) ==
    IF p.loop_mode = "all" /\ p.current # NoSong
    THEN [p EXCEPT !.queue = <<p.current>> \o @]
    ELSE p

Requeue(p) ==
    IF p.loop_mode = "all" /\ p.current # NoSong
    THEN [p EXCEPT !.queue = Append(@, p.current)]
    ELSE p

\* play_next, lines 478-509: history, loop all, then idle-out or the next track.
AdvanceBranch(s, g, p, announce) ==
    LET p1 == IF p.current # NoSong
              THEN [p EXCEPT !.history = HistoryAppend(@, p.current)]
              ELSE p
        p2 == Requeue(p1)
    IN  IF p2.queue = <<>>
        THEN [s |-> Schedule(Schedule(SetPlayer(s, g, [p2 EXCEPT !.current = NoSong]),
                                      Task("cleanup", g)),
                             Task("arm", g)),
              path |-> "idle"]
        ELSE LET p3 == [p2 EXCEPT !.current = PopNext(p2.queue),
                                  !.queue = RestAfterPop(p2.queue)]
             IN  IF CanPlay(s.vc[g])
                 THEN LET s1 == [SetPlayer(s, g, [p3 EXCEPT !.start_time = s.now,
                                                           !.is_paused = FALSE])
                                   EXCEPT !.vc[g] = VcPlay(@, p3.current)]
                      IN  [s |-> IF announce THEN Schedule(s1, Task("announce", g))
                                 ELSE s1,
                           path |-> "advance"]
                 ELSE [s |-> SetPlayer(s, g, p3), path |-> "raised_advance"]

\* Music.play_next(guild_id, voice_client, text_channel, announce):
\* the new state, the path taken and the elapsed time it measured (-1: none).
play_next(s, g, announce) ==
    LET s0 == get_player(s, g)
        p == s0.players[g]
        checked == p.current # NoSong /\ p.start_time > 0 /\ RetryAllowed(p.retry_count)
        elapsed == s.now - p.start_time
    IN  IF p.skip_next_callback
        THEN [s |-> SetPlayer(s0, g, [p EXCEPT !.skip_next_callback = FALSE]),
              path |-> "suppressed", elapsed |-> -1]
        ELSE IF checked /\ IsPrematureEnd(elapsed, p.current.duration)
        THEN [s |-> Schedule(SetPlayer(s0, g, [p EXCEPT !.retry_count = @ + 1]),
                             Task("retry", g)),
              path |-> "retry", elapsed |-> elapsed]
        ELSE LET p1 == [p EXCEPT !.retry_count = 0]
                 r == IF p1.loop_mode = "one" /\ p1.current # NoSong
                      THEN LoopOneBranch(s0, g, p1)
                      ELSE AdvanceBranch(s0, g, p1, announce)
             IN  [s |-> r.s, path |-> r.path,
                  elapsed |-> IF checked THEN elapsed ELSE -1]

\* ------------------------------------------------------------ ledger
\* Music._save_player_message
_save_player_message(s, g, m) == [s EXCEPT !.ledger = Put(s.ledger, g, m)]

\* Music._remove_player_message
_remove_player_message(s, g) == [s EXCEPT !.ledger = Drop(s.ledger, g)]

\* message ids in use: a new message gets an id no reference holds
UsedMsgs(s) ==
    s.messages \cup {s.ledger[g] : g \in DOMAIN s.ledger}
               \cup {s.players[g].player_message : g \in DOMAIN s.players}

FreshMsg(s) == CHOOSE m \in 1..(Cardinality(UsedMsgs(s)) + 1) :
                   /\ m \notin UsedMsgs(s)
                   /\ \A k \in 1..(m - 1) : k \in UsedMsgs(s)

\* message.delete(), its failure swallowed
DeleteMessage(s, m) == [s EXCEPT !.messages = @ \ {m}]

\* ------------------------------------------------------- idle timer
\* Music.cancel_disconnect_timer
KeepDisconnectTimer(s, g) == s

cancel_disconnect_timer(s, g) ==
    [s EXCEPT !.disconnect_tasks = Drop(s.disconnect_tasks, g)]

\* Music.start_disconnect_timer, up to asyncio.create_task
start_disconnect_timer(s, g) ==
    LET s1 == cancel_disconnect_timer(s, g)
    IN  [s1 EXCEPT !.disconnect_tasks =
            Put(s1.disconnect_tasks, g,
                [pc |-> "sleep", deadline |-> s.now + AUTO_DISCONNECT_DELAY * Hz,
                 orphan |-> FALSE])]

\* del self.players[guild_id]: the coroutines that hold the removed player
\* object in a local variable go on writing to an object the registry no
\* longer has.
HoldsPlayer(t) ==
    \/ t.kind = "cleanup" /\ t.pc = "deleting"
    \/ t.kind = "leave" /\ t.pc = "deleting"
    \/ t.kind = "retry" /\ t.pc \in {"sleep", "resolving"}
    \/ t.kind = "restart" /\ t.pc = "deferring"

DelPlayer(s, g) ==
    IF g \notin DOMAIN s.players THEN s
    ELSE [s EXCEPT
            !.players = Drop(s.players, g),
            !.play_cmd[g].orphan = (s.play_cmd[g].pc # "idle"),
            !.tasks = [i \in DOMAIN s.tasks |->
                          IF s.tasks[i].g = g /\ HoldsPlayer(s.tasks[i])
                          THEN [s.tasks[i] EXCEPT !.orphan = TRUE]
                          ELSE s.tasks[i]],
            !.disconnect_tasks =
                [x \in DOMAIN s.disconnect_tasks |->
                    IF x = g /\ s.disconnect_tasks[x].pc = "deleting"
                    THEN [s.disconnect_tasks[x] EXCEPT !.orphan = TRUE]
                    ELSE s.disconnect_tasks[x]]]

\* ------------------------------------------------------- the display
\* int(x) of a float of seconds given in ticks: truncation toward zero.
IntSeconds(ticks) == IF ticks >= 0 THEN ticks \div Hz ELSE -((-ticks) \div Hz)

\* Music.create_now_playing_embed, lines 544-552: the elapsed seconds shown.
ElapsedShown(p, t) ==
    LET elapsed == IF p.start_time = 0 THEN 0
                   ELSE IF p.is_paused THEN IntSeconds(p.paused_time - p.start_time)
                   ELSE IntSeconds(t - p.start_time)
    IN  Max(0, Min(elapsed, p.current.duration))

\* ---------------------------------------------------------- observers
NoMark == [on |-> FALSE, g |-> "g1", current |-> NoSong, queue |-> <<>>, n |-> 0]

Current(g) == IF g \in DOMAIN players THEN players[g].current ELSE NoSong

Queue(g) == IF g \in DOMAIN players THEN players[g].queue ELSE <<>>

History(g) == IF g \in DOMAIN players THEN players[g].history ELSE <<>>

LoopMode(g) == IF g \in DOMAIN players THEN players[g].loop_mode ELSE "off"

RetryCount(g) == IF g \in DOMAIN players THEN players[g].retry_count ELSE 0

\* The step just taken: the handler, the path play_next took in it ("-":
\* play_next was not called), the elapsed time play_next measured, and the
\* retry count and length of history before the step.
Observe(g, op, path, elapsed) ==
    last' = [op |-> op, g |-> g, path |-> path, elapsed |-> elapsed,
             rc |-> RetryCount(g), hlen |-> Len(History(g))]

\* The snapshot counts the normal advances after it and ends with any
\* other change of the current track, the queue or the loop mode.
ObserveMark(g, op, path) ==
    mark' = IF ~mark.on \/ mark.g # g THEN mark
            ELSE IF op = "after" /\ path = "advance" /\ LoopMode(g) = "all"
                 THEN IF mark.n <= Len(mark.queue)
                      THEN [mark EXCEPT !.n = @ + 1]
                      ELSE NoMark
            ELSE IF /\ g \in DOMAIN players'
                    /\ players'[g].current = Current(g)
                    /\ players'[g].queue = Queue(g)
                    /\ players'[g].loop_mode = LoopMode(g)
                 THEN mark
                 ELSE NoMark

\* What create_now_playing_embed shows for the guild when a pause begins.
NoShown == [g |-> "g1", elapsed |-> -1]

ObserveShown(g, op) ==
    shown' = IF op = "pause" /\ g \in DOMAIN players
             THEN [g |-> g, elapsed |-> ElapsedShown(players[g], now)]
             ELSE shown

\* looped: the guilds whose loop mode has been "all" at some moment.
\* idled: the guilds for which play_next took its idle path (lines 485-496)
\* and no handler but the two coroutines it scheduled has acted since.
\* back: the queue, history and current track a /previous found, kept while
\* the track it restored plays (on), and through the step of the first
\* callback other than the suppressed one of its own stop (done); any other
\* request ends it.
NoBack == [on |-> FALSE, done |-> FALSE, g |-> "g1", queue |-> <<>>,
           history |-> <<>>, current |-> NoSong]

NoSeen == [looped |-> {}, idled |-> {}, back |-> NoBack]

ObserveSeen(g, s, op, path) ==
    seen' = [looped |-> seen.looped \cup {x \in DOMAIN s.players :
                                             s.players[x].loop_mode = "all"},
             idled |-> IF path = "idle" THEN seen.idled \cup {g}
                       ELSE IF op \in {"cleanup", "arm"} THEN seen.idled
                       ELSE seen.idled \ {g},
             back |-> IF op = "previous"
                      THEN [on |-> TRUE, done |-> FALSE, g |-> g,
                            queue |-> Queue(g), history |-> History(g),
                            current |-> Current(g)]
                      ELSE IF ~seen.back.on THEN NoBack
                      ELSE IF seen.back.g # g THEN seen.back
                      ELSE IF \/ op \in {"finish", "announce", "cleanup", "arm"}
                              \/ op = "after" /\ path = "suppressed"
                           THEN seen.back
                      ELSE IF op = "after"
                           THEN [seen.back EXCEPT !.on = FALSE, !.done = TRUE]
                      ELSE NoBack]

\* The songs appended by /play, in order, and the songs play_next took from
\* the queue, in order; a song taken when as many were taken as appended is
\* not recorded, only that it happened (over).
ObserveFifo(g, s, op, path) ==
    fifo' = LET e == IF op = "play_resolved" /\ path # "-"
                     THEN Append(fifo.enq, Song(s.next_id, play_cmd[g].url,
                                                play_cmd[g].duration))
                     ELSE fifo.enq
                popped == path \in {"advance", "raised_advance"}
                room == Len(fifo.pop) < Len(e)
            IN  [enq |-> e,
                 pop |-> IF popped /\ room THEN Append(fifo.pop, s.players[g].current)
                         ELSE fifo.pop,
                 over |-> fifo.over \/ (popped /\ ~room)]

\* A handler's step: the program state becomes s.
Commit(g, s, op, path, elapsed) ==
    /\ players' = s.players
    /\ disconnect_tasks' = s.disconnect_tasks
    /\ vc' = s.vc
    /\ ledger' = s.ledger
    /\ messages' = s.messages
    /\ tasks' = s.tasks
    /\ play_cmd' = s.play_cmd
    /\ next_id' = s.next_id
    /\ Observe(g, op, path, elapsed)
    /\ ObserveFifo(g, s, op, path)
    /\ ObserveMark(g, op, path)
    /\ ObserveShown(g, op)
    /\ ObserveSeen(g, s, op, path)
    /\ UNCHANGED <<now, sweep>>

Started == sweep.pc = "done"

\* ---------------------------------------------------------------- Init
NoPlay == [pc |-> "idle", url |-> "", duration |-> 0, orphan |-> FALSE]

NoLast == [op |-> "init", g |-> "g1", path |-> "-", elapsed |-> -1, rc |-> 0, hlen |-> 0]

InitCommon ==
    /\ now = Epoch
    /\ players = [g \in {} |-> MusicPlayer]
    /\ disconnect_tasks = [g \in {} |-> 0]
    /\ vc = [g \in Guilds |-> NoVoice]
    /\ tasks = <<>>
    /\ play_cmd = [g \in Guilds |-> NoPlay]
    /\ next_id = 0
    /\ fifo = [enq |-> <<>>, pop |-> <<>>, over |-> FALSE]
    /\ mark = NoMark
    /\ shown = NoShown
    /\ seen = NoSeen
    /\ last = NoLast

\* The process starts with no ledger file left by an earlier run.
Init ==
    /\ InitCommon
    /\ ledger = [g \in {} |-> 0]
    /\ messages = {}
    /\ sweep = [pc |-> "start", todo |-> {}, seen |-> {}, escaped |-> FALSE]

\* ---------------------------------------------------------------- time
Tick(d) ==
    /\ d > 0
    /\ now' = now + d
    /\ last' = [NoLast EXCEPT !.op = "tick"]
    /\ UNCHANGED <<players, disconnect_tasks, vc, ledger, messages, tasks,
                   play_cmd, next_id, sweep, fifo, mark, shown, seen>>

\* ------------------------------------------------------------- /play
\* Music.play, lines 637-658: connect if needed, take the player, cancel the
\* idle timer, reset the retry counter, then await get_song(query).
play_begin(g, url, duration) ==
    /\ Started
    /\ play_cmd[g].pc = "idle"
    /\ vc[g].state # "closed"
    /\ LET s0 == IF vc[g].state = "none"
                 THEN [St EXCEPT !.vc[g].state = "idle"]
                 ELSE St
           s1 == cancel_disconnect_timer(get_player(s0, g), g)
           p  == s1.players[g]
           s2 == SetPlayer(s1, g, [p EXCEPT !.retry_count = 0, !.text_channel = TRUE])
       IN  Commit(g, [s2 EXCEPT !.play_cmd[g] =
                         [pc |-> "resolving", url |-> url, duration |-> duration,
                          orphan |-> FALSE]],
                  "play_begin", "-", -1)

\* Music.play, lines 649-652: the except clauses answer the interaction and
\* return; get_player, cancel_disconnect_timer and the writes to the player
\* (lines 654-657) are not reached.
ConnectFailedAfterSetup(s, g) ==
    LET s1 == cancel_disconnect_timer(get_player(s, g), g)
    IN  SetPlayer(s1, g, [s1.players[g] EXCEPT !.retry_count = 0,
                                               !.text_channel = TRUE])

ConnectFailed(s, g) == s

\* Music.play, lines 643-652: the guild has no voice client (none yet, or
\* the last one was disconnected), the connect attempt fails and the
\* command returns.
play_connect_fail(g) ==
    /\ Started
    /\ play_cmd[g].pc = "idle"
    /\ vc[g].state \in {"none", "closed"}
    /\ Commit(g, ConnectFailed(St, g), "play_connect_fail", "-", -1)

\* Music.play, lines 668-682: delete the old control message, post the new
\* one and record it (one step).
PostPlayerMessage(s, g, orphan) ==
    LET old == IF orphan \/ g \notin DOMAIN s.players THEN 0
               ELSE s.players[g].player_message
        s1 == IF old # 0 THEN DeleteMessage(s, old) ELSE s
        m  == FreshMsg(s1)
        s2 == [s1 EXCEPT !.messages = @ \cup {m}]
        s3 == IF orphan \/ g \notin DOMAIN s2.players THEN s2
              ELSE [s2 EXCEPT !.players[g].player_message = m]
    IN  _save_player_message(s3, g, m)

\* Music.play, lines 658-686: get_song returned.
play_resolved(g, found) ==
    /\ play_cmd[g].pc = "resolving"
    /\ LET c  == play_cmd[g]
           s0 == [St EXCEPT !.play_cmd[g] = NoPlay]
       IN  IF ~found
           THEN Commit(g, s0, "play_resolved", "-", -1)
           ELSE LET song == Song(next_id + 1, c.url, c.duration)
                    s1 == [s0 EXCEPT !.next_id = @ + 1]
                    s2 == IF c.orphan THEN s1
                          ELSE [s1 EXCEPT !.players[g].queue = Append(@, song)]
                IN  IF is_playing(vc[g]) \/ is_paused(vc[g])
                    THEN Commit(g, s2, "play_resolved", "queued", -1)
                    ELSE LET r == play_next(s2, g, FALSE)
                         IN  IF r.path \in {"raised_loop", "raised_advance"}
                             THEN Commit(g, r.s, "play_resolved", r.path, r.elapsed)
                             ELSE Commit(g, PostPlayerMessage(r.s, g, c.orphan),
                                         "play_resolved", r.path, r.elapsed)

\* ---------------------------------------------------------- transport
\* The track on the transport ends (it finished, or its stream failed): the
\* player's thread will call `after`.
Finish(g) ==
    /\ is_playing(vc[g])
    /\ Commit(g, [St EXCEPT !.vc[g] = [@ EXCEPT !.state = "idle", !.track = NoSong,
                                                 !.pending = @ + 1]],
              "finish", "-", -1)

\* The `after` callback registered with every voice_client.play:
\* lambda e: self.play_next(guild_id, voice_client, text_channel, error=e).
\* An exception it raises is logged by the transport's thread.
after(g) ==
    /\ vc[g].pending > 0
    /\ LET r == play_next([St EXCEPT !.vc[g].pending = @ - 1], g, TRUE)
       IN  Commit(g, r.s, "after", r.path, r.elapsed)

\* ------------------------------------------------------ the event loop
\* The loop starts the scheduled coroutines in the order they were
\* scheduled; one that awaits resumes whenever its await completes.
CanRun(i) ==
    /\ i \in DOMAIN tasks
    /\ tasks[i].pc = "new" => \A j \in 1..(i - 1) : tasks[j].pc # "new"

EndTask(s, i) == [s EXCEPT !.tasks = RemoveAt(@, i)]

\* Music.cleanup_player as a scheduled coroutine (play_next, lines 488-491).
cleanup_task(i) ==
    /\ CanRun(i)
    /\ tasks[i].kind = "cleanup"
    /\ LET t == tasks[i]
           g == t.g
       IN  IF t.pc = "new"
           THEN IF g \in DOMAIN players /\ players[g].player_message # 0
                THEN Commit(g, [DeleteMessage(St, players[g].player_message)
                                  EXCEPT !.tasks[i].pc = "deleting"],
                            "cleanup", "-", -1)
                ELSE Commit(g, EndTask(_remove_player_message(St, g), i),
                            "cleanup", "-", -1)
           ELSE LET s1 == IF t.orphan THEN St
                          ELSE [St EXCEPT !.players[g].player_message = 0]
                IN  Commit(g, EndTask(_remove_player_message(s1, g), i),
                           "cleanup", "-", -1)

\* Music.start_disconnect_timer as a scheduled coroutine (play_next, lines 492-495).
arm_task(i) ==
    /\ CanRun(i)
    /\ tasks[i].kind = "arm"
    /\ Commit(tasks[i].g, EndTask(start_disconnect_timer(St, tasks[i].g), i),
              "arm", "-", -1)

\* Music.send_now_playing (one step): delete the old control message, post
\* the new one and record it.
send_now_playing(i) ==
    /\ CanRun(i)
    /\ tasks[i].kind = "announce"
    /\ LET g == tasks[i].g
       IN  Commit(g, EndTask(PostPlayerMessage(get_player(St, g), g, FALSE), i),
                  "announce", "-", -1)

\* Music._retry_current_song, lines 511-518: up to the back-off sleep.
retry_start(i) ==
    /\ CanRun(i)
    /\ tasks[i].kind = "retry"
    /\ tasks[i].pc = "new"
    /\ LET g == tasks[i].g
           s0 == get_player(St, g)
       IN  IF s0.players[g].current = NoSong
           THEN Commit(g, EndTask(s0, i), "retry_start", "-", -1)
           ELSE Commit(g, [s0 EXCEPT !.tasks[i] =
                              [@ EXCEPT !.pc = "sleep",
                                        !.wake = now + RETRY_DELAY * Hz,
                                        !.song = s0.players[g].current]],
                       "retry_start", "-", -1)

\* Music._retry_current_song, lines 520-526: after the sleep, up to the
\* await of get_song(player.current.url); reading .url of None ends the task.
retry_wake(i) ==
    /\ CanRun(i)
    /\ tasks[i].kind = "retry"
    /\ tasks[i].pc = "sleep"
    /\ now >= tasks[i].wake
    /\ LET t == tasks[i]
           g == t.g
           cur == IF t.orphan THEN t.song ELSE players[g].current
       IN  IF ~is_connected(vc[g]) \/ cur = NoSong
           THEN Commit(g, EndTask(St, i), "retry_wake", "-", -1)
           ELSE Commit(g, [St EXCEPT !.tasks[i] = [@ EXCEPT !.pc = "resolving",
                                                           !.song = cur]],
                       "retry_wake", "-", -1)

\* Music._retry_current_song, lines 526-536: get_song returned.
retry_resolved(i, found) ==
    /\ CanRun(i)
    /\ tasks[i].kind = "retry"
    /\ tasks[i].pc = "resolving"
    /\ LET t == tasks[i]
           g == t.g
           s0 == EndTask(St, i)
       IN  IF found
           THEN LET fresh == Song(next_id + 1, t.song.url, t.song.duration)
                    s1 == [s0 EXCEPT !.next_id = @ + 1]
                    s2 == IF t.orphan THEN s1
                          ELSE [s1 EXCEPT !.players[g].current = fresh,
                                          !.players[g].start_time = now]
                IN  IF CanPlay(vc[g])
                    THEN Commit(g, [s2 EXCEPT !.vc[g] = VcPlay(@, fresh)],
                                "retry_resolved", "retry_ok", -1)
                    ELSE Commit(g, s2, "retry_resolved", "raised_retry", -1)
           ELSE LET s1 == IF t.orphan THEN s0
                          ELSE [s0 EXCEPT !.players[g].retry_count = 0]
                    r == play_next(s1, g, TRUE)
                IN  Commit(g, r.s, "retry_resolved", r.path, r.elapsed)

\* ------------------------------------------------- idle timer, firing
\* disconnect_after_delay, lines 380-387: the sleep is over; not connected,
\* the task ends; else cleanup_player starts (it awaits the deletion of the
\* control message when the player has one).
timer_wake(g) ==
    /\ g \in DOMAIN disconnect_tasks
    /\ disconnect_tasks[g].pc = "sleep"
    /\ now >= disconnect_tasks[g].deadline
    /\ IF ~is_connected(vc[g])
       THEN Commit(g, [St EXCEPT !.disconnect_tasks[g].pc = "done"],
                   "timer_wake", "-", -1)
       ELSE IF g \in DOMAIN players /\ players[g].player_message # 0
       THEN Commit(g, [DeleteMessage(St, players[g].player_message)
                         EXCEPT !.disconnect_tasks[g].pc = "deleting"],
                   "timer_wake", "-", -1)
       ELSE Commit(g, [DelPlayer(_remove_player_message(St, g), g)
                         EXCEPT !.vc[g] = VcDisconnect(@),
                                !.disconnect_tasks[g].pc = "disconnecting"],
                   "timer_teardown", "-", -1)

\* disconnect_after_delay, lines 387-390 (cleanup_player, lines 355-357):
\* the message is deleted; forget it, drop the ledger entry, remove the
\* player, disconnect.
timer_after_delete(g) ==
    /\ g \in DOMAIN disconnect_tasks
    /\ disconnect_tasks[g].pc = "deleting"
    /\ LET s1 == IF disconnect_tasks[g].orphan THEN St
                 ELSE [St EXCEPT !.players[g].player_message = 0]
       IN  Commit(g, [DelPlayer(_remove_player_message(s1, g), g)
                        EXCEPT !.vc[g] = VcDisconnect(@),
                               !.disconnect_tasks[g].pc = "disconnecting"],
                  "timer_teardown", "-", -1)

\* disconnect_after_delay, lines 390-397: disconnected; notify and end.
timer_after_disconnect(g) ==
    /\ g \in DOMAIN disconnect_tasks
    /\ disconnect_tasks[g].pc = "disconnecting"
    /\ Commit(g, [St EXCEPT !.disconnect_tasks[g].pc = "done"],
              "timer_done", "-", -1)

\* ------------------------------------------------- voice-state events
\* Music.on_voice_state_update, lines 1092-1102, for a member other than the
\* bot who leaves the bot's channel: `remaining` non-bot members are left
\* in it; with none the idle timer is started.
member_left(g, remaining) ==
    /\ Started
    /\ is_connected(vc[g])
    /\ remaining >= 0
    /\ IF remaining = 0
       THEN Commit(g, start_disconnect_timer(St, g), "member_left", "alone", -1)
       ELSE Commit(g, St, "member_left", "others", -1)

\* Music.on_voice_state_update, lines 1092-1106, for a member other than
\* the bot who joins the bot's channel: the idle timer is cancelled.
member_joined(g) ==
    /\ Started
    /\ is_connected(vc[g])
    /\ Commit(g, cancel_disconnect_timer(St, g), "member_joined", "-", -1)

\* -------------------------------------------------------------- /leave
\* Music.leave, lines 709-717, up to its first await: with a control
\* message recorded, cleanup_player awaits its deletion; with none, the
\* ledger entry and the session are removed and the transport is
\* disconnected.
leave(g) ==
    /\ Started
    /\ vc[g].state \notin {"none", "closed"}
    /\ IF g \in DOMAIN players /\ players[g].player_message # 0
       THEN Commit(g, Schedule(DeleteMessage(St, players[g].player_message),
                               [Task("leave", g) EXCEPT !.pc = "deleting"]),
                   "leave", "-", -1)
       ELSE Commit(g, [DelPlayer(_remove_player_message(St, g), g)
                         EXCEPT !.vc[g] = VcDisconnect(@)],
                   "leave_teardown", "-", -1)

\* Music.leave, lines 713-717 (cleanup_player, lines 355-357): the message
\* is deleted; forget it, drop the ledger entry, remove the session if the
\* registry has one, disconnect if the guild still has a voice client.
leave_after_delete(i) ==
    /\ CanRun(i)
    /\ tasks[i].kind = "leave"
    /\ LET t == tasks[i]
           g == t.g
           s1 == IF t.orphan THEN St
                 ELSE [St EXCEPT !.players[g].player_message = 0]
       IN  Commit(g, [EndTask(DelPlayer(_remove_player_message(s1, g), g), i)
                        EXCEPT !.vc[g] = VcDisconnect(@)],
                  "leave_teardown", "-", -1)

\* ------------------------------------------------------------ commands
\* Music.pause; PlayerView.pause_resume_button, lines 199-202.
pause(g) ==
    /\ Started
    /\ is_playing(vc[g])
    /\ LET s0 == get_player(St, g)
       IN  Commit(g, [s0 EXCEPT !.vc[g] = VcPause(@),
                                !.players[g].paused_time = now,
                                !.players[g].is_paused = TRUE],
                  "pause", "-", -1)

\* Music.resume; PlayerView.pause_resume_button, lines 203-207.
resume(g) ==
    /\ Started
    /\ is_paused(vc[g])
    /\ LET s0 == get_player(St, g)
           pause_duration == now - s0.players[g].paused_time
       IN  Commit(g, [s0 EXCEPT !.vc[g] = VcResume(@),
                                !.players[g].start_time = @ + pause_duration,
                                !.players[g].is_paused = FALSE],
                  "resume", "-", -1)

\* Music.skip and PlayerView.skip_button: loop one falls back to off, the
\* transport is stopped.
SkipEffect(g) ==
    LET s0 == get_player(St, g)
        p == s0.players[g]
    IN  [SetPlayer(s0, g, IF p.loop_mode = "one" THEN [p EXCEPT !.loop_mode = "off"] ELSE p)
           EXCEPT !.vc[g] = VcStop(@)]

\* Music.skip: only while the transport is playing.
skip(g) ==
    /\ Started
    /\ is_playing(vc[g])
    /\ Commit(g, SkipEffect(g), "skip", "-", -1)

\* PlayerView.skip_button: while the transport is playing or paused.
skip_button(g) ==
    /\ Started
    /\ is_playing(vc[g]) \/ is_paused(vc[g])
    /\ Commit(g, SkipEffect(g), "skip_button", "-", -1)

\* Music.stop
stop(g) ==
    /\ Started
    /\ is_connected(vc[g])
    /\ LET s0 == get_player(St, g)
       IN  Commit(g, [s0 EXCEPT !.players[g].queue = <<>>,
                                !.players[g].current = NoSong,
                                !.players[g].loop_mode = "off",
                                !.vc[g] = VcStop(@)],
                  "stop", "-", -1)

\* PlayerView.stop_button, pressed on the live control message m: the queue
\* and current are cleared, the transport is stopped if it plays or is
\* paused, and the message the button is on is deleted (lines 245-262);
\* loop_mode, player_message and the ledger are not written.
stop_button(g, m) ==
    /\ Started
    /\ m \in messages
    /\ vc[g].state \notin {"none", "closed"}
    /\ LET s0 == get_player(St, g)
           busy == is_playing(vc[g]) \/ is_paused(vc[g])
       IN  Commit(g, DeleteMessage([s0 EXCEPT !.players[g].queue = <<>>,
                                              !.players[g].current = NoSong,
                                              !.vc[g] = IF busy THEN VcStop(@) ELSE @],
                                   m),
                  "stop_button", "-", -1)

\* Music.restart
restart(g) ==
    /\ Started
    /\ is_playing(vc[g]) \/ is_paused(vc[g])
    /\ LET s0 == get_player(St, g)
           p == s0.players[g]
       IN  /\ p.current # NoSong
           /\ Commit(g, [SetPlayer(s0, g, [p EXCEPT !.skip_next_callback = TRUE,
                                                   !.start_time = now,
                                                   !.is_paused = FALSE])
                           EXCEPT !.vc[g] = VcPlay(VcStop(@), p.current)],
                     "restart", "-", -1)

\* Music.restart up to `await interaction.response.defer()` (line 780): the
\* guards have passed and the handler holds the player object.
restart_begin(g) ==
    /\ Started
    /\ is_playing(vc[g]) \/ is_paused(vc[g])
    /\ LET s0 == get_player(St, g)
       IN  /\ s0.players[g].current # NoSong
           /\ Commit(g, Schedule(s0, [Task("restart", g)
                                         EXCEPT !.pc = "deferring",
                                                !.song = s0.players[g].current]),
                     "restart_begin", "-", -1)

\* Music.restart from line 782 on, whatever ran during the await: the flag is
\* set and the transport stopped unconditionally; player.current.source
\* raises AttributeError when current is None, voice_client.play raises when
\* the transport is not connected.
restart_deferred(i) ==
    /\ CanRun(i)
    /\ tasks[i].kind = "restart"
    /\ LET t == tasks[i]
           g == t.g
           s0 == EndTask(St, i)
           s1 == IF t.orphan THEN s0
                 ELSE [s0 EXCEPT !.players[g].skip_next_callback = TRUE]
           s2 == [s1 EXCEPT !.vc[g] = VcStop(@)]
           cur == IF t.orphan THEN t.song ELSE players[g].current
           s3 == IF t.orphan THEN s2
                 ELSE [s2 EXCEPT !.players[g].start_time = now,
                                 !.players[g].is_paused = FALSE]
       IN  IF cur = NoSong
           THEN Commit(g, s2, "restart_deferred", "raised_restart", -1)
           ELSE IF CanPlay(s2.vc[g])
           THEN Commit(g, [s3 EXCEPT !.vc[g] = VcPlay(@, cur)],
                       "restart_deferred", "restarted", -1)
           ELSE Commit(g, s3, "restart_deferred", "raised_restart", -1)

\* Music.previous, line 807: history.pop() takes the newest entry out.
HistoryKeptOnPop(h) == h

HistoryAfterPop(h) == Front(h)

\* Music.previous, line 811: queue.appendleft(current) puts the interrupted
\* track in front of everything queued.
QueueAppendRight(q, x) == Append(q, x)

QueueAppendLeft(q, x) == <<x>> \o q

\* Music.previous (PlayerView.previous_button does the same to the player
\* and the transport).
previous(g) ==
    /\ Started
    /\ is_connected(vc[g])
    /\ LET s0 == get_player(St, g)
           p == s0.players[g]
       IN  /\ p.history # <<>>
           /\ LET previous_song == p.history[Len(p.history)]
                  p1 == [p EXCEPT !.history = HistoryAfterPop(@),
                                  !.queue = IF p.current # NoSong
                                            THEN QueueAppendLeft(@, p.current)
                                            ELSE @,
                                  !.current = previous_song]
                  busy == is_playing(vc[g]) \/ is_paused(vc[g])
                  p2 == [p1 EXCEPT !.skip_next_callback = IF busy THEN TRUE ELSE @,
                                   !.start_time = now,
                                   !.is_paused = FALSE]
              IN  Commit(g, [SetPlayer(s0, g, p2)
                               EXCEPT !.vc[g] = VcPlay(VcStop(@), previous_song)],
                         "previous", "-", -1)

\* Music.seek, lines 946-992, for a timestamp that parses to `seconds`.
SeekPosition(t, seconds) == t - seconds * Hz

seek(g, seconds) ==
    /\ Started
    /\ is_playing(vc[g])
    /\ LET s0 == get_player(St, g)
           p == s0.players[g]
       IN  /\ p.current # NoSong
           /\ seconds >= 0
           /\ seconds <= p.current.duration
           /\ Commit(g, [SetPlayer(s0, g, [p EXCEPT !.skip_next_callback = TRUE,
                                                   !.start_time = SeekPosition(now, seconds)])
                           EXCEPT !.vc[g] = VcPlay(VcStop(@), p.current)],
                     "seek", "-", seconds)

\* Music.loop with a mode given.
loop(g, mode) ==
    /\ Started
    /\ mode \in LoopModes
    /\ Commit(g, [get_player(St, g) EXCEPT !.players[g].loop_mode = mode],
              "loop", "-", -1)

\* ------------------------------------------------- the startup sweep
\* What the platform answers for one ledger entry: the channel is not in
\* the cache, the message is fetched and deleted, or fetch_message or
\* delete raises.
EntryOutcomes(g) ==
    IF ledger[g] \in messages
    THEN {"no_channel", "deleted", "forbidden", "http_error"}
    ELSE {"no_channel", "not_found", "http_error"}

EntryException(outcome) ==
    CASE outcome = "not_found"  -> "NotFound"
      [] outcome = "forbidden"  -> "Forbidden"
      [] outcome = "http_error" -> "HTTPException"
      [] OTHER -> "none"

\* lines 327-330: except discord.NotFound / except discord.Forbidden
CaughtPerMessage(exc) == exc \in {"NotFound", "Forbidden"}

\* line 331: except Exception, around one entry
CaughtPerEntryAsNotFoundOnly(exc) == exc = "NotFound"

CaughtPerEntry(exc) == exc \in {"NotFound", "Forbidden", "HTTPException"}

\* line 337: except Exception, around the whole sweep
CaughtBySweep(exc) == exc \in {"NotFound", "Forbidden", "HTTPException"}

\* Music.cog_load -> _cleanup_orphaned_messages, lines 312-317: no file (or
\* an empty one), nothing to do; else load the entries.
sweep_start ==
    /\ sweep.pc = "start"
    /\ sweep' = IF DOMAIN ledger = {}
                THEN [sweep EXCEPT !.pc = "done"]
                ELSE [sweep EXCEPT !.pc = "running", !.todo = DOMAIN ledger]
    /\ last' = [NoLast EXCEPT !.op = "sweep_start"]
    /\ UNCHANGED <<now, players, disconnect_tasks, vc, ledger, messages, tasks,
                   play_cmd, next_id, fifo, mark, shown, seen>>

\* _cleanup_orphaned_messages, lines 319-332: one entry of the loop.
sweep_entry(g, outcome) ==
    /\ sweep.pc = "running"
    /\ g \in sweep.todo
    /\ outcome \in EntryOutcomes(g)
    /\ LET exc == EntryException(outcome)
       IN  /\ messages' = IF outcome = "deleted" THEN messages \ {ledger[g]}
                          ELSE messages
           /\ sweep' = IF exc = "none" \/ CaughtPerMessage(exc) \/ CaughtPerEntry(exc)
                       THEN [sweep EXCEPT !.todo = @ \ {g}, !.seen = @ \cup {outcome}]
                       ELSE [sweep EXCEPT !.pc = "done", !.seen = @ \cup {outcome},
                                          !.escaped = ~CaughtBySweep(exc)]
    /\ last' = [NoLast EXCEPT !.op = "sweep_entry", !.g = g]
    /\ UNCHANGED <<now, players, disconnect_tasks, vc, ledger, tasks,
                   play_cmd, next_id, fifo, mark, shown, seen>>

\* _cleanup_orphaned_messages, lines 334-336: the file is reset to {}.
sweep_finish ==
    /\ sweep.pc = "running"
    /\ sweep.todo = {}
    /\ ledger' = [g \in {} |-> 0]
    /\ sweep' = [sweep EXCEPT !.pc = "done"]
    /\ last' = [NoLast EXCEPT !.op = "sweep_finish"]
    /\ UNCHANGED <<now, players, disconnect_tasks, vc, messages, tasks,
                   play_cmd, next_id, fifo, mark, shown, seen>>

\* The process starts with a ledger left by an earlier run: entries for some
\* guilds, each naming its own message, which may or may not still exist.
InitStale ==
    /\ InitCommon
    /\ ledger \in UNION {[D -> 1..MaxMsgs] : D \in SUBSET Guilds}
    /\ \A g, h \in DOMAIN ledger : g # h => ledger[g] # ledger[h]
    /\ messages \in SUBSET {ledger[g] : g \in DOMAIN ledger}
    /\ sweep = [pc |-> "start", todo |-> {}, seen |-> {}, escaped |-> FALSE]

NextSweep ==
    \/ sweep_start
    \/ \E g \in Guilds, o \in {"no_channel", "deleted", "not_found",
                               "forbidden", "http_error"} : sweep_entry(g, o)
    \/ sweep_finish

SpecSweep == InitStale /\ [][NextSweep]_vars

\* ------------------------------------------------------ specifications
\* The guild whose session the playback specifications follow.
Active == {"g1"}

\* A scheduled coroutine that waits for nothing outside the process.
LoopBusy ==
    \E i \in DOMAIN tasks :
        tasks[i].kind \in {"cleanup", "arm", "announce"} \/ tasks[i].pc = "new"

\* The steps of the coroutines play_next schedules when the queue runs out
\* and when it starts a track.
ScheduledSteps ==
    \/ \E i \in DOMAIN tasks : cleanup_task(i)
    \/ \E i \in DOMAIN tasks : arm_task(i)
    \/ \E i \in DOMAIN tasks : send_now_playing(i)

\* The steps of the retry coroutine; it re-resolves its track while fewer
\* than `songs` Song objects were allocated.
RetrySteps(songs) ==
    \/ \E i \in DOMAIN tasks : retry_start(i)
    \/ \E i \in DOMAIN tasks : retry_wake(i)
    \/ \E i \in DOMAIN tasks, found \in BOOLEAN :
           (found => next_id < songs) /\ retry_resolved(i, found)

TaskSteps(songs) == ScheduledSteps \/ RetrySteps(songs)

\* The tracks the requests of the playback specifications resolve to: one
\* long enough for the premature-end check to apply, one without a duration.
Tracks == {<<"a", 60>>, <<"b", 0>>}

\* Nothing is scheduled on the loop and no `after` callback is outstanding.
Quiet == ~LoopBusy /\ \A g \in Guilds : vc[g].pending = 0

\* Requests of /play with loop mode off.  The transport's thread delivers
\* `after` and the loop runs what is scheduled on it before the next request
\* or transport event is handled.
NextFifo ==
    \/ sweep_start
    \/ \E d \in {16 * Hz} : Quiet /\ now + d <= Epoch + MaxTime * Hz /\ Tick(d)
    \/ \E g \in Active, tr \in Tracks :
           Quiet /\ next_id < MaxSongs /\ play_begin(g, tr[1], tr[2])
    \/ \E g \in Active : play_connect_fail(g)
    \/ \E g \in Active, found \in BOOLEAN : Quiet /\ play_resolved(g, found)
    \/ \E g \in Active : Quiet /\ Finish(g)
    \/ \E g \in Active : ~LoopBusy /\ after(g)
    \/ TaskSteps(MaxSongs)

SpecFifo == Init /\ [][NextFifo]_vars

\* ------------------------------------------------------------ loop modes
\* seconds the clock may advance in a run of SpecLoopOne and SpecLoopAll
LoopTime == 40
\* Song objects get_song may allocate in a run of SpecLoopOne and SpecLoopAll
LoopSongs == 2

\* Tracks long enough for the premature-end check to apply to them.
LongTracks == {<<"a", 60>>, <<"b", 80>>}

\* The observer takes its snapshot of (current, queue) while a track plays
\* with loop mode all.
MarkCycle(g) ==
    /\ ~mark.on
    /\ is_playing(vc[g])
    /\ LoopMode(g) = "all"
    /\ Current(g) # NoSong
    /\ mark' = [on |-> TRUE, g |-> g, current |-> Current(g), queue |-> Queue(g),
                n |-> 0]
    /\ last' = [NoLast EXCEPT !.op = "mark"]
    /\ UNCHANGED <<now, players, disconnect_tasks, vc, ledger, messages, tasks,
                   play_cmd, next_id, sweep, fifo, shown, seen>>

\* A session in which /loop one is given at some moment; tracks end after
\* 16 seconds or at once.
NextLoopOne ==
    \/ sweep_start
    \/ \E d \in {16 * Hz} : Quiet /\ now + d <= Epoch + LoopTime * Hz /\ Tick(d)
    \/ \E g \in Active, tr \in LongTracks :
           Quiet /\ next_id < LoopSongs /\ play_begin(g, tr[1], tr[2])
    \/ \E g \in Active, found \in BOOLEAN : Quiet /\ play_resolved(g, found)
    \/ \E g \in Active : Quiet /\ LoopMode(g) = "off" /\ loop(g, "one")
    \/ \E g \in Active : Quiet /\ Finish(g)
    \/ \E g \in Active : ~LoopBusy /\ after(g)
    \/ TaskSteps(LoopSongs)

SpecLoopOne == Init /\ [][NextLoopOne]_vars

\* A session in which /loop all is given at some moment.
NextLoopAll ==
    \/ sweep_start
    \/ \E d \in {16 * Hz} : Quiet /\ now + d <= Epoch + LoopTime * Hz /\ Tick(d)
    \/ \E g \in Active, tr \in LongTracks :
           Quiet /\ next_id < LoopSongs /\ play_begin(g, tr[1], tr[2])
    \/ \E g \in Active, found \in BOOLEAN : Quiet /\ play_resolved(g, found)
    \/ \E g \in Active : Quiet /\ LoopMode(g) = "off" /\ loop(g, "all")
    \/ \E g \in Active : Quiet /\ MarkCycle(g)
    \/ \E g \in Active : Quiet /\ Finish(g)
    \/ \E g \in Active : ~LoopBusy /\ after(g)
    \/ TaskSteps(LoopSongs)

SpecLoopAll == Init /\ [][NextLoopAll]_vars

\* ---------------------------------------------- premature ends, retries
\* seconds the clock may advance in a run of SpecClassify
ClassifyTime == 18
\* Song objects get_song may allocate in a run of SpecClassify
ClassifySongs == 2

\* The tracks of SpecClassify: a minute long and ten seconds long.
ClassifyTracks == {<<"a", 60>>, <<"c", 10>>}

\* Seconds that pass between two events of SpecClassify.
ClassifySteps == {5, 10, 18}

\* Tracks that end 0, 5, 10, 15 or 18 seconds after they started, by
\* themselves or because their stream failed.
NextClassify ==
    \/ sweep_start
    \/ \E d \in ClassifySteps :
           Quiet /\ now + d * Hz <= Epoch + ClassifyTime * Hz /\ Tick(d * Hz)
    \/ \E g \in Active, tr \in ClassifyTracks :
           Quiet /\ next_id < ClassifySongs /\ play_begin(g, tr[1], tr[2])
    \/ \E g \in Active, found \in BOOLEAN : Quiet /\ play_resolved(g, found)
    \/ \E g \in Active : Quiet /\ Finish(g)
    \/ \E g \in Active : ~LoopBusy /\ after(g)
    \/ TaskSteps(ClassifySongs)

SpecClassify == Init /\ [][NextClassify]_vars

\* seconds the clock may advance in a run of SpecRetry
RetryTime == 40
\* Song objects get_song may allocate in a run of SpecRetry
RetrySongs == 3

\* Tracks a minute long whose stream may fail at once, again and again.
NextRetry ==
    \/ sweep_start
    \/ \E d \in {16 * Hz} : Quiet /\ now + d <= Epoch + RetryTime * Hz /\ Tick(d)
    \/ \E g \in Active :
           Quiet /\ next_id < RetrySongs /\ play_begin(g, "a", 60)
    \/ \E g \in Active, found \in BOOLEAN : Quiet /\ play_resolved(g, found)
    \/ \E g \in Active : Quiet /\ Finish(g)
    \/ \E g \in Active : ~LoopBusy /\ after(g)
    \/ TaskSteps(RetrySongs)

SpecRetry == Init /\ [][NextRetry]_vars

\* ------------------------------------------------------------- history
\* Song objects get_song may allocate in a run of SpecHistory
HistorySongs == 2

\* Tracks of unknown duration (0), which the premature-end check passes.
ShortTracks == {<<"a", 0>>, <<"b", 0>>}

\* A session that goes on for as long as it likes: /play, /loop all, and
\* tracks that end one after the other.
NextHistory ==
    \/ sweep_start
    \/ \E g \in Active, tr \in ShortTracks :
           Quiet /\ next_id < HistorySongs /\ play_begin(g, tr[1], tr[2])
    \/ \E g \in Active, found \in BOOLEAN : Quiet /\ play_resolved(g, found)
    \/ \E g \in Active : Quiet /\ LoopMode(g) = "off" /\ loop(g, "all")
    \/ \E g \in Active : Quiet /\ Finish(g)
    \/ \E g \in Active : ~LoopBusy /\ after(g)
    \/ ScheduledSteps

SpecHistory == Init /\ [][NextHistory]_vars

\* ------------------------------------------------------ pause and seek
\* seconds the clock may advance in a run of SpecPause
PauseTime == 7
\* Song objects get_song may allocate in a run of SpecPause
PauseSongs == 2
\* the position /seek is asked for in SpecPause, in seconds
SeekTo == 5

\* The tracks of SpecPause: a minute long and ten seconds long.
PauseTracks == {<<"a", 60>>, <<"c", 10>>}

\* One track after the other, paused, resumed, skipped from the control
\* message and sought in, with 3 seconds between some of the events.
NextPause ==
    \/ sweep_start
    \/ \E d \in {3 * Hz} : Quiet /\ now + d <= Epoch + PauseTime * Hz /\ Tick(d)
    \/ \E g \in Active, tr \in PauseTracks :
           Quiet /\ next_id < PauseSongs /\ play_begin(g, tr[1], tr[2])
    \/ \E g \in Active, found \in BOOLEAN : Quiet /\ play_resolved(g, found)
    \/ \E g \in Active : Quiet /\ pause(g)
    \/ \E g \in Active : Quiet /\ resume(g)
    \/ \E g \in Active : Quiet /\ skip_button(g)
    \/ \E g \in Active, seconds \in {0, SeekTo} : Quiet /\ seek(g, seconds)
    \/ \E g \in Active : Quiet /\ Finish(g)
    \/ \E g \in Active : ~LoopBusy /\ after(g)
    \/ TaskSteps(PauseSongs)

SpecPause == Init /\ [][NextPause]_vars

\* --------------------------------------------------------- idle timeout
\* seconds the clock may advance in a run of SpecIdle
IdleTime == 120
\* Song objects get_song may allocate in a run of SpecIdle
IdleSongs == 2

\* Tracks that end, the queue running out, /play and /previous, and the
\* idle timer.  A /play request and the `after` callback come at any moment,
\* also between the coroutines play_next has scheduled on the loop.
NextIdle ==
    \/ sweep_start
    \/ \E d \in {(AUTO_DISCONNECT_DELAY * Hz) \div 2} :
           ~LoopBusy /\ now + d <= Epoch + IdleTime * Hz /\ Tick(d)
    \/ \E g \in Active : next_id < IdleSongs /\ play_begin(g, "b", 0)
    \/ \E g \in Active, found \in BOOLEAN : play_resolved(g, found)
    \/ \E g \in Active : Quiet /\ previous(g)
    \/ \E g \in Active : Quiet /\ Finish(g)
    \/ \E g \in Active : after(g)
    \/ ScheduledSteps
    \/ \E g \in Active : timer_wake(g)
    \/ \E g \in Active : timer_after_delete(g)
    \/ \E g \in Active : timer_after_disconnect(g)

SpecIdle == Init /\ [][NextIdle]_vars

\* ------------------------------------------------------------- sessions
\* seconds the clock may advance in a run of SpecSession
SessionTime == 2
\* Song objects get_song may allocate in a run of SpecSession
SessionSongs == 2
\* coroutines that may be scheduled on the loop at once in SpecSession
SessionTasks == 2

\* A session of /play, /previous, /skip, /stop, /restart and /loop one, with
\* tracks that end or fail at once and are retried.
NextSession ==
    \/ sweep_start
    \/ \E d \in {RETRY_DELAY * Hz} :
           Quiet /\ now + d <= Epoch + SessionTime * Hz /\ Tick(d)
    \/ \E g \in Active, tr \in Tracks :
           Quiet /\ next_id < SessionSongs /\ play_begin(g, tr[1], tr[2])
    \/ \E g \in Active, found \in BOOLEAN : Quiet /\ play_resolved(g, found)
    \/ \E g \in Active : Quiet /\ LoopMode(g) = "off" /\ loop(g, "one")
    \/ \E g \in Active : Quiet /\ previous(g)
    \/ \E g \in Active : Quiet /\ skip(g)
    \/ \E g \in Active : Quiet /\ stop(g)
    \/ \E g \in Active : Quiet /\ restart(g)
    \/ \E g \in Active : Quiet /\ Finish(g)
    \/ \E g \in Active : ~LoopBusy /\ Len(tasks) < SessionTasks /\ after(g)
    \/ TaskSteps(SessionSongs)

SpecSession == Init /\ [][NextSession]_vars

\* ------------------------------------------------------- queue and history
\* Song objects get_song may allocate in a run of SpecShelf
ShelfSongs == 3
\* tracks end while queue and history together hold fewer entries than this,
\* in SpecShelf
ShelfDepth == 3

\* /play, /loop all and /previous over tracks that end at once: what the
\* queue and the history hold of the tracks played.
NextShelf ==
    \/ sweep_start
    \/ \E g \in Active, tr \in ShortTracks :
           Quiet /\ next_id < ShelfSongs /\ play_begin(g, tr[1], tr[2])
    \/ \E g \in Active, found \in BOOLEAN : Quiet /\ play_resolved(g, found)
    \/ \E g \in Active : Quiet /\ LoopMode(g) = "off" /\ loop(g, "all")
    \/ \E g \in Active : Quiet /\ previous(g)
    \/ \E g \in Active :
           /\ Quiet
           /\ Len(Queue(g)) + Len(History(g)) < ShelfDepth
           /\ Finish(g)
    \/ \E g \in Active : ~LoopBusy /\ after(g)
    \/ ScheduledSteps

SpecShelf == Init /\ [][NextShelf]_vars

\* -------------------------------------------------------- forced stops
\* seconds the clock may advance in a run of SpecForced
ForcedTime == 1
\* Song objects get_song may allocate in a run of SpecForced
ForcedSongs == 2
\* `after` callbacks that may be outstanding at once in SpecForced
ForcedPending == 2
\* coroutines that may be scheduled on the loop at once in SpecForced
ForcedTasks == 1

\* /restart, /seek, /previous and /skip while a track is playing.  No track
\* ends by itself: every `after` callback comes from the stop one of these
\* commands issued, and a command may come before the callback of the one
\* before it is delivered.
NextForced ==
    \/ sweep_start
    \/ \E d \in {RETRY_DELAY * Hz} :
           Quiet /\ now + d <= Epoch + ForcedTime * Hz /\ Tick(d)
    \/ \E g \in Active, tr \in Tracks :
           Quiet /\ next_id < ForcedSongs /\ play_begin(g, tr[1], tr[2])
    \/ \E g \in Active, found \in BOOLEAN : Quiet /\ play_resolved(g, found)
    \/ \E g \in Active :
           ~LoopBusy /\ vc[g].pending < ForcedPending /\ restart(g)
    \/ \E g \in Active :
           ~LoopBusy /\ vc[g].pending < ForcedPending /\ seek(g, 0)
    \/ \E g \in Active :
           ~LoopBusy /\ vc[g].pending < ForcedPending
           /\ is_playing(vc[g]) /\ previous(g)
    \/ \E g \in Active :
           ~LoopBusy /\ vc[g].pending < ForcedPending /\ skip(g)
    \/ \E g \in Active : ~LoopBusy /\ Len(tasks) < ForcedTasks /\ after(g)
    \/ TaskSteps(ForcedSongs)

SpecForced == Init /\ [][NextForced]_vars

\* --------------------------------------------------------------- leave
\* seconds the clock may advance in a run of SpecLeave
LeaveTime == 120
\* Song objects get_song may allocate in a run of SpecLeave
LeaveSongs == 2

\* Tracks that end, the queue running out, the idle timer, and /leave at
\* any moment, also while the idle timer's teardown awaits; one /leave is
\* in flight at a time.
NextLeave ==
    \/ sweep_start
    \/ \E d \in {(AUTO_DISCONNECT_DELAY * Hz) \div 2} :
           ~LoopBusy /\ now + d <= Epoch + LeaveTime * Hz /\ Tick(d)
    \/ \E g \in Active : next_id < LeaveSongs /\ play_begin(g, "b", 0)
    \/ \E g \in Active, found \in BOOLEAN : play_resolved(g, found)
    \/ \E g \in Active : Quiet /\ Finish(g)
    \/ \E g \in Active : after(g)
    \/ ScheduledSteps
    \/ \E g \in Active : timer_wake(g)
    \/ \E g \in Active : timer_after_delete(g)
    \/ \E g \in Active : timer_after_disconnect(g)
    \/ \E g \in Active :
           /\ ~LoopBusy
           /\ \A i \in DOMAIN tasks : tasks[i].kind # "leave"
           /\ leave(g)
    \/ \E i \in DOMAIN tasks : leave_after_delete(i)

SpecLeave == Init /\ [][NextLeave]_vars

\* ------------------------------------------------------ connect failure
\* SpecLeave with /play requests whose connect attempt fails, before the
\* first connection and after a /leave or an idle disconnect.
NextConnect ==
    \/ NextLeave
    \/ \E g \in Active : play_connect_fail(g)

SpecConnect == Init /\ [][NextConnect]_vars

\* ------------------------------------------------------- empty channel
\* seconds the clock may advance in a run of SpecAlone
AloneTime == 120
\* Song objects get_song may allocate in a run of SpecAlone
AloneSongs == 2
\* non-bot members that may remain in the channel when one leaves
AloneOthers == 1

\* Tracks that end, the queue running out and the idle timer, while members
\* leave and join the bot's channel at any moment.
NextAlone ==
    \/ sweep_start
    \/ \E d \in {(AUTO_DISCONNECT_DELAY * Hz) \div 2} :
           ~LoopBusy /\ now + d <= Epoch + AloneTime * Hz /\ Tick(d)
    \/ \E g \in Active : next_id < AloneSongs /\ play_begin(g, "b", 0)
    \/ \E g \in Active, found \in BOOLEAN : play_resolved(g, found)
    \/ \E g \in Active : Quiet /\ Finish(g)
    \/ \E g \in Active : after(g)
    \/ ScheduledSteps
    \/ \E g \in Active : timer_wake(g)
    \/ \E g \in Active : timer_after_delete(g)
    \/ \E g \in Active : timer_after_disconnect(g)
    \/ \E g \in Active, remaining \in 0..AloneOthers :
           ~LoopBusy /\ member_left(g, remaining)
    \/ \E g \in Active : ~LoopBusy /\ member_joined(g)

SpecAlone == Init /\ [][NextAlone]_vars

\* ----------------------------------------------------------------- stop
\* seconds the clock may advance in a run of SpecStop
StopTime == 1
\* Song objects get_song may allocate in a run of SpecStop
StopSongs == 2
\* coroutines that may be scheduled on the loop at once in SpecStop
StopTasks == 2

\* Tracks that end or whose stream fails at once and is retried, with /stop
\* and the stop button at any moment: during the retry's backoff, during
\* its re-resolution, and before a callback is delivered.
NextStop ==
    \/ sweep_start
    \/ \E d \in {RETRY_DELAY * Hz} :
           Quiet /\ now + d <= Epoch + StopTime * Hz /\ Tick(d)
    \/ \E g \in Active, tr \in Tracks :
           Quiet /\ next_id < StopSongs /\ play_begin(g, tr[1], tr[2])
    \/ \E g \in Active, found \in BOOLEAN : Quiet /\ play_resolved(g, found)
    \/ \E g \in Active : Quiet /\ Finish(g)
    \/ \E g \in Active : ~LoopBusy /\ Len(tasks) < StopTasks /\ after(g)
    \/ \E g \in Active : ~LoopBusy /\ play_cmd[g].pc = "idle" /\ stop(g)
    \/ \E g \in Active, m \in messages :
           ~LoopBusy /\ play_cmd[g].pc = "idle" /\ stop_button(g, m)
    \/ TaskSteps(StopSongs)

SpecStop == Init /\ [][NextStop]_vars

\* -------------------------------------------------------------- defer
\* Song objects get_song may allocate in a run of SpecDefer
DeferSongs == 2
\* seconds the clock may advance in a run of SpecDefer
DeferTime == 16

\* Tracks without a known duration that end by themselves, with /restart
\* at any moment of playback: the track may end, and its callback run,
\* while /restart awaits the acknowledgement of its interaction.
NextDefer ==
    \/ sweep_start
    \/ \E d \in {16 * Hz} :
           Quiet /\ now + d <= Epoch + DeferTime * Hz /\ Tick(d)
    \/ \E g \in Active :
           Quiet /\ next_id < DeferSongs /\ play_begin(g, "b", 0)
    \/ \E g \in Active, found \in BOOLEAN : Quiet /\ play_resolved(g, found)
    \/ \E g \in Active : Quiet /\ Finish(g)
    \/ \E g \in Active : ~LoopBusy /\ after(g)
    \/ \E g \in Active :
           /\ Quiet
           /\ \A i \in DOMAIN tasks : tasks[i].kind # "restart"
           /\ restart_begin(g)
    \/ \E i \in DOMAIN tasks : ~LoopBusy /\ restart_deferred(i)
    \/ ScheduledSteps

SpecDefer == Init /\ [][NextDefer]_vars

\* C1: with loop mode off, the N-th track play_next takes from the queue is
\* the N-th track /play appended: the tracks taken, in order, are the first
\* of the tracks appended, in order, and none is taken that was not appended.
FifoOrder ==
    /\ ~fifo.over
    /\ Len(fifo.pop) <= Len(fifo.enq)
    /\ \A n \in 1..Len(fifo.pop) : fifo.pop[n] = fifo.enq[n]

\* C1 witness: the callback of a finished track has made the second appended
\* track current while a third waits behind it.
FifoSecondAdvance ==
    /\ last.op = "after"
    /\ last.path = "advance"
    /\ Len(fifo.pop) = 2
    /\ Len(fifo.enq) = 3
    /\ Current("g1") = fifo.enq[2]
    /\ Queue("g1") = <<fifo.enq[3]>>

\* C2: with loop mode one and a current track, every completion handled by
\* play_next (the `after` callback of the transport) leaves current, the
\* queue and history as they were: current is not appended to history and
\* the queue is not popped, whichever path play_next takes.
LoopOneKeeps ==
    [][\A g \in Guilds :
          (/\ last'.op = "after"
           /\ last'.g = g
           /\ LoopMode(g) = "one"
           /\ Current(g) # NoSong)
          => /\ g \in DOMAIN players'
             /\ players'[g].current = Current(g)
             /\ players'[g].queue = Queue(g)
             /\ players'[g].history = History(g)
             /\ players'[g].loop_mode = "one"]_vars

\* C2 witness: the callback has replayed the current track under loop mode
\* one while another track waits in the queue.
LoopOneReplayed ==
    /\ last.op = "after"
    /\ last.path = "loop_one"
    /\ LoopMode("g1") = "one"
    /\ Current("g1") # NoSong
    /\ Queue("g1") # <<>>
    /\ is_playing(vc["g1"])

\* C3, each advance: with loop mode all a normal advance puts the finished
\* track at the back of the queue and then takes the front of it.
LoopAllRotates ==
    [][\A g \in Guilds :
          (/\ last'.op = "after"
           /\ last'.g = g
           /\ last'.path = "advance"
           /\ LoopMode(g) = "all"
           /\ Current(g) # NoSong)
          => LET q == Append(Queue(g), Current(g))
             IN  /\ players'[g].current = Head(q)
                 /\ players'[g].queue = Tail(q)]_vars

\* C3, the full cycle: K normal advances after a snapshot of current C and
\* queue [q1..qn], K = n + 1, make current C again and the queue [q1..qn].
LoopAllReturns ==
    (mark.on /\ mark.n = Len(mark.queue) + 1)
        => Current(mark.g) = mark.current /\ Queue(mark.g) = mark.queue

PrematureClassified ==
    [][\A g \in Guilds :
          (/\ last'.op = "after"
           /\ last'.g = g
           /\ g \in DOMAIN players
           /\ ~players[g].skip_next_callback
           /\ players[g].current # NoSong
           /\ players[g].start_time > 0
           /\ players[g].retry_count < 2)
          => LET elapsed == now - players[g].start_time
                 duration == players[g].current.duration
                 premature ==
                     \/ elapsed < 15 * Hz /\ duration > 20
                     \/ duration > 0 /\ 5 * elapsed < duration * Hz /\ elapsed < 30 * Hz
                 retried ==
                     /\ last'.path = "retry"
                     /\ players'[g].retry_count = players[g].retry_count + 1
                     /\ players'[g].current = players[g].current
                     /\ Len(tasks') = Len(tasks) + 1
                     /\ tasks'[Len(tasks')].kind = "retry"
                 advanced ==
                     /\ last'.path \in {"advance", "idle"}
                     /\ players'[g].current # players[g].current
                     /\ players'[g].history = HistoryAppend(players[g].history,
                                                            players[g].current)
             IN  /\ last'.elapsed = elapsed
                 /\ premature <=> last'.path = "retry"
                 /\ (elapsed = 10 * Hz /\ duration = 60) => retried
                 /\ (elapsed = 18 * Hz /\ duration = 60) => advanced
                 /\ (elapsed = 5 * Hz /\ duration = 10) => advanced]_vars

\* C5 witness: a 60 s track that ended after 10 s is being retried.
PrematureAtTen ==
    /\ last.op = "after"
    /\ last.path = "retry"
    /\ last.elapsed = 10 * Hz
    /\ Current("g1").duration = 60
    /\ RetryCount("g1") = 1
    /\ \E i \in DOMAIN tasks : tasks[i].kind = "retry"

HistoryBounded ==
    \A g \in DOMAIN players : Len(players[g].history) <= 50

\* C7, the eviction: a step that appends to a history of 50 drops its
\* oldest entry and keeps the others in their order, the finished track
\* coming last.
HistoryEvictsOldest ==
    [][\A g \in Guilds :
          (/\ g \in DOMAIN players
           /\ g \in DOMAIN players'
           /\ Len(players[g].history) = 50
           /\ players'[g].history # players[g].history)
          => /\ Len(players'[g].history) = 50
             /\ \A k \in 1..49 : players'[g].history[k] = players[g].history[k + 1]
             /\ players'[g].history[50] = players[g].current]_vars

\* C7: history holds at most 50 tracks, and an append to a full history
\* evicts the oldest entry and keeps the order of the rest.
HistoryCapped == []HistoryBounded /\ HistoryEvictsOldest

\* C7 witness: play_next has appended a finished track to a history that
\* already held 50.
HistoryEvicted ==
    /\ last.op = "after"
    /\ last.path = "advance"
    /\ last.hlen = 50
    /\ Len(History("g1")) = 50
    /\ LoopMode("g1") = "all"
    /\ Queue("g1") # <<>>
    /\ History("g1")[50] = Queue("g1")[Len(Queue("g1"))]
    /\ History("g1")[49] # History("g1")[50]

\* C4: a playing track is paused and then resumed, whatever time passes
\* between the two: the elapsed seconds on display right after the resume
\* are those on display right before the pause.
PauseResumeKeepsDisplay ==
    (/\ last.op = "resume"
     /\ last.g \in DOMAIN players
     /\ players[last.g].current # NoSong
     /\ shown.g = last.g)
        => ElapsedShown(players[last.g], now) = shown.elapsed

\* C8, the cancellation: a step that starts a track on the transport while
\* the guild's idle timer is armed and has not fired leaves no timer armed.
StartCancelsTimer ==
    [][\A g \in Guilds :
          (/\ g \in DOMAIN disconnect_tasks
           /\ disconnect_tasks[g].pc = "sleep"
           /\ is_playing(vc'[g])
           /\ ~is_playing(vc[g]) \/ vc'[g].track # vc[g].track)
          => ~(g \in DOMAIN disconnect_tasks' /\ disconnect_tasks'[g].pc = "sleep")]_vars

\* C8, the teardown: the idle timer armed when the queue ran out does not
\* tear the session down when a track has started before its delay was over.
NoTeardownWhilePlaying ==
    [][\A g \in Guilds :
          (/\ g \in DOMAIN disconnect_tasks
           /\ disconnect_tasks[g].pc = "sleep"
           /\ last'.op \in {"timer_wake", "timer_teardown"}
           /\ last'.g = g
           /\ is_playing(vc[g]) \/ is_paused(vc[g])
           /\ g \in DOMAIN players
           /\ players[g].start_time < disconnect_tasks[g].deadline)
          => /\ is_connected(vc'[g])
             /\ g \in DOMAIN players'
             /\ messages' = messages]_vars

\* C8: a track that starts after the idle timer was armed and before it
\* fires cancels the timer, and no idle teardown follows from that arming,
\* in every interleaving of /play, the scheduled arming and the timer.
TimerCancelledByStart == StartCancelsTimer /\ NoTeardownWhilePlaying

\* C9: the startup sweep ends with an empty ledger and lets no error out,
\* whatever happened at each entry.
SweepClearsLedger ==
    sweep.pc = "done" => (DOMAIN ledger = {} /\ ~sweep.escaped)

\* C9 witness: a sweep is over in which one message was deleted, one was
\* already gone and one could not be deleted.
SweepMixed ==
    /\ sweep.pc = "done"
    /\ {"deleted", "not_found", "forbidden"} \subseteq sweep.seen
    /\ DOMAIN ledger = {}
    /\ messages # {}

\* C10: right after an accepted /seek to t seconds start_time is now - t
\* and the elapsed seconds on display are t, within one second.
SeekSetsDisplay ==
    (last.op = "seek" /\ last.g \in DOMAIN players)
        => LET p == players[last.g]
               d == ElapsedShown(p, now) - last.elapsed
           IN  /\ p.start_time = now - last.elapsed * Hz
               /\ d \in {-1, 0, 1}

\* C11: no track (Song object) is in the queue and in history at the same
\* time, whatever the loop mode.
QueueHistoryDisjoint ==
    \A g \in DOMAIN players :
        \A i \in DOMAIN players[g].queue, j \in DOMAIN players[g].history :
            players[g].queue[i].id # players[g].history[j].id

\* C11 (amended): in a guild whose loop mode has never been "all", no track
\* is in the queue and in history at the same time.
DisjointUntilLoopAll ==
    \A g \in DOMAIN players :
        g \notin seen.looped =>
            \A i \in DOMAIN players[g].queue, j \in DOMAIN players[g].history :
                players[g].queue[i].id # players[g].history[j].id

\* C11 witness: /previous has moved tracks between a non-empty history and
\* a non-empty queue in a guild that never looped over the queue.
DisjointUntilLoopAllWitness ==
    /\ last.op = "previous"
    /\ last.g \notin seen.looped
    /\ Queue(last.g) # <<>>
    /\ History(last.g) # <<>>

\* C12: at most one control message of the session is live at any time, and
\* a live control message is the one the session's player records (the
\* specification follows one session, so every live message is its own).
OneControlMessage ==
    /\ Cardinality(messages) <= 1
    /\ \A m \in messages :
           \E g \in DOMAIN players : players[g].player_message = m

\* C13: whenever the transport is playing or paused the session has a
\* current track.
PlayingHasCurrent ==
    \A g \in Guilds :
        (is_playing(vc[g]) \/ is_paused(vc[g])) => Current(g) # NoSong

\* C14: whenever the transport is playing or paused, the track loaded into
\* it is the session's current track; so every track play_next pops into
\* current is started on the transport.
TransportPlaysCurrent ==
    \A g \in Guilds :
        (is_playing(vc[g]) \/ is_paused(vc[g])) => vc[g].track = Current(g)

\* C15: retry_count is 0 right after every step that starts a track (/play,
\* a normal advance, a loop replay, a retry whose track starts) and right
\* after every explicit user action (restart, seek, previous, skip).
RetryCountReset ==
    (\/ last.path \in {"advance", "loop_one", "retry_ok"}
     \/ last.op \in {"play_begin", "restart", "seek", "previous", "skip",
                     "skip_button"})
        => RetryCount(last.g) = 0

\* C16: a step that removes a session from the registry leaves no control
\* message of the session live and no ledger entry for the guild: the
\* deletion of the message and the removal of the entry come before (or
\* with) the removal of the session, on every teardown path.
TeardownAfterCleanup ==
    [][\A g \in DOMAIN players :
           g \notin DOMAIN players' =>
               /\ g \notin DOMAIN ledger'
               /\ messages' = {}]_vars

\* C17: the `after` callback caused by the stop of /restart, /seek,
\* /previous or /skip returns without running the retry, loop or advance
\* logic (in SpecForced every callback is caused by such a stop).
ForcedStopSuppressed ==
    [][\A g \in Guilds :
           vc'[g].pending < vc[g].pending => last'.path = "suppressed"]_vars

\* C19: a step that removes a session from the registry leaves no idle
\* timer armed for the guild (a timer that is itself tearing the session
\* down is running, not armed).
RemovalCancelsTimer ==
    [][\A g \in DOMAIN players :
           g \notin DOMAIN players' =>
               ~(/\ g \in DOMAIN disconnect_tasks'
                 /\ disconnect_tasks'[g].pc = "sleep")]_vars

\* C20: the `after` callback, which the transport's thread runs, writes no
\* session state: a step that delivers a callback leaves every player's
\* fields as they were and no player created or removed; it may only
\* schedule work on the loop.
CallbackOnlyEnqueues ==
    [][\A g \in Guilds :
           vc'[g].pending < vc[g].pending => players' = players]_vars

\* C21: play_next takes a track from the queue only for a transport that
\* plays nothing: a trigger that pops while a track is playing or paused is
\* a second advance for one end of a track.
OnePopPerTrackEnd ==
    [][\A g \in Guilds :
           (/\ last'.g = g
            /\ last'.path \in {"advance", "raised_advance"}
            /\ players' # players)
           => ~(is_playing(vc[g]) \/ is_paused(vc[g]))]_vars

\* C22: a /play whose connect attempt fails changes nothing: registry,
\* players' fields, idle timers, transport, ledger, messages, scheduled
\* coroutines and pending requests are as before.
ConnectFailureKeepsState ==
    [][last'.op = "play_connect_fail" =>
           UNCHANGED <<players, disconnect_tasks, vc, ledger, messages, tasks,
                       play_cmd, next_id>>]_vars

\* C22 witness: the connect attempt failed for a guild whose idle timer is
\* armed and whose session is gone from the registry.
ConnectFailedWithTimerArmed ==
    /\ last.op = "play_connect_fail"
    /\ last.g \in DOMAIN disconnect_tasks
    /\ disconnect_tasks[last.g].pc = "sleep"
    /\ last.g \notin DOMAIN players

\* C23 (the completion's step): a completion that is not suppressed and not
\* premature, with loop mode off or no current track, and an empty queue,
\* sets current to None, starts no track, and schedules cleanup_player and
\* start_disconnect_timer.
IdleOutStep ==
    [][\A g \in Guilds :
         LET p == get_player(St, g).players[g]
         IN  (/\ vc'[g].pending < vc[g].pending
              /\ ~p.skip_next_callback
              /\ ~(/\ p.current # NoSong
                   /\ p.start_time > 0
                   /\ RetryAllowed(p.retry_count)
                   /\ IsPrematureEnd(now - p.start_time, p.current.duration))
              /\ p.loop_mode = "off" \/ p.current = NoSong
              /\ p.queue = <<>>)
             => /\ players'[g].current = NoSong
                /\ vc'[g].state = vc[g].state
                /\ vc'[g].track = vc[g].track
                /\ tasks' = tasks \o <<Task("cleanup", g), Task("arm", g)>>]_vars

\* C23 (once the scheduled coroutines have run): after the idle path, when
\* cleanup_player and start_disconnect_timer are done and no other handler
\* has acted for the guild, current is None, no control message is live, the
\* ledger has no entry for the guild and its idle timer is armed.
IdleOutDone ==
    \A g \in seen.idled :
        (\A i \in DOMAIN tasks :
             ~(tasks[i].g = g /\ tasks[i].kind \in {"cleanup", "arm"})) =>
            /\ Current(g) = NoSong
            /\ g \notin DOMAIN ledger
            /\ messages = {}
            /\ g \in DOMAIN disconnect_tasks
            /\ disconnect_tasks[g].pc = "sleep"

\* C23: both parts.
IdleOut == IdleOutStep /\ []IdleOutDone

\* C24 (classification): the `after` step in which play_next classifies
\* the completion as premature adds exactly 1 to retryCount and leaves queue
\* and history as they were.
PrematureStepFrame ==
    [][\A g \in DOMAIN players :
         (vc'[g].pending < vc[g].pending /\ last'.path = "retry") =>
             /\ g \in DOMAIN players'
             /\ players'[g].retry_count = players[g].retry_count + 1
             /\ players'[g].queue = players[g].queue
             /\ players'[g].history = players[g].history]_vars

\* C24 (restart): the step in which the retry's re-resolution succeeds
\* starts the re-resolved track on the transport with startTime = now, and
\* current has the same canonical URL before and after it.
RetryRestartsSameTrack ==
    [][\A g \in DOMAIN players :
         (/\ last'.g = g
          /\ last'.op = "retry_resolved"
          /\ last'.path \in {"retry_ok", "raised_retry"}
          /\ tasks' # tasks) =>
             /\ g \in DOMAIN players'
             /\ players'[g].current.url = players[g].current.url
             /\ players'[g].start_time = now
             /\ is_playing(vc'[g])
             /\ vc'[g].track = players'[g].current]_vars

\* C24: both parts.
RetryFrame == PrematureStepFrame /\ RetryRestartsSameTrack

\* C25: the step in which the retry's re-resolution fails leaves retryCount
\* at 0 and runs the normal advance: the failed track is replayed by loop
\* one, or goes to history and the next track starts or the session idles
\* out; it is not classified premature and retried again.
FailedRetryAdvances ==
    [][\A g \in Guilds :
         (/\ last'.g = g
          /\ last'.op = "retry_resolved"
          /\ last'.path \notin {"retry_ok", "raised_retry"}
          /\ tasks' # tasks) =>
             /\ g \in DOMAIN players'
             /\ players'[g].retry_count = 0
             /\ last'.path \in {"advance", "idle", "loop_one"}]_vars

\* C26: when a member leaves the bot's channel and no non-bot member
\* remains, the guild's one timer entry is a timer armed at that moment for
\* the full delay (an earlier one is replaced); when a member joins the
\* bot's channel, no timer is left for the guild.
AloneArmsJoinCancels ==
    [][\A g \in Guilds :
         /\ (last'.g = g /\ last'.op = "member_left" /\ last'.path = "alone") =>
                /\ g \in DOMAIN disconnect_tasks'
                /\ disconnect_tasks'[g].pc = "sleep"
                /\ disconnect_tasks'[g].deadline = now + AUTO_DISCONNECT_DELAY * Hz
         /\ (last'.g = g /\ last'.op = "member_joined") =>
                g \notin DOMAIN disconnect_tasks']_vars

\* C26 witness: the last member left while a track was playing, some time
\* after the process started; the guild's timer runs for the full delay
\* from that moment.
AloneWhilePlaying ==
    /\ last.op = "member_left"
    /\ last.path = "alone"
    /\ is_playing(vc[last.g])
    /\ now > Epoch
    /\ disconnect_tasks[last.g].deadline = now + AUTO_DISCONNECT_DELAY * Hz

\* Nothing is in flight: no coroutine scheduled or awaiting, no request
\* awaiting, no callback outstanding, no timer in its teardown.
Quiescent ==
    /\ tasks = <<>>
    /\ \A g \in Guilds : vc[g].pending = 0 /\ play_cmd[g].pc = "idle"
    /\ \A g \in DOMAIN disconnect_tasks :
           disconnect_tasks[g].pc \notin {"deleting", "disconnecting"}
    /\ Started

\* C27: in every quiescent state the ledger has an entry for the guild
\* followed exactly when a control message of its session is live, and the
\* entry names a live message.
LedgerMirrorsMessage ==
    Quiescent =>
        \A g \in Active :
            /\ g \in DOMAIN ledger <=> messages # {}
            /\ g \in DOMAIN ledger => ledger[g] \in messages

\* C28: when the startup sweep is over and the ledger cleared, every message
\* a ledger entry named that still existed and could be deleted is deleted:
\* unless a delete was refused or failed, no stale message is left.
SweepDeletesEveryMessage ==
    (sweep.pc = "done" /\ sweep.seen \cap {"forbidden", "http_error"} = {})
        => messages = {}

\* C29: the completion callback of a skip, with a track queued and nothing
\* else in flight, makes the head of the queue current: the skipped track is
\* never classified as ended prematurely and restarted.
SkipAdvances ==
    [][\A g \in Guilds :
           (/\ last.op \in {"skip", "skip_button"}
            /\ last.g = g
            /\ tasks = <<>>
            /\ vc[g].pending = 1
            /\ vc'[g].pending = 0
            /\ g \in DOMAIN players
            /\ ~players[g].skip_next_callback
            /\ Len(players[g].queue) > 0)
               => /\ last'.path = "advance"
                  /\ players'[g].current = Head(players[g].queue)]_vars

\* C30: the step that follows a stop (command or button), unless it is a
\* /play request, leaves the transport idle and current None, whichever
\* retry or completion callback was in flight when the stop arrived.
StopStaysStopped ==
    [][\A g \in Guilds :
           (/\ last.op \in {"stop", "stop_button"}
            /\ last.g = g
            /\ last'.op \notin {"play_begin", "play_resolved"})
               => /\ Current(g)' = NoSong
                  /\ ~is_playing(vc'[g])]_vars

\* C31: a completion callback or a retry task that runs for a guild whose
\* session has been removed from the registry does not put a session back.
TeardownStaysTornDown ==
    [][\A g \in Guilds :
           (/\ g \notin DOMAIN players
            /\ last'.g = g
            /\ last'.op \in {"after", "retry_start", "retry_wake",
                             "retry_resolved"})
               => g \notin DOMAIN players']_vars

\* C32: the session's is_paused flag follows the transport: it is false
\* whenever the transport is playing and true whenever it is paused.
PausedFlagFollowsTransport ==
    \A g \in DOMAIN players :
        /\ is_playing(vc[g]) => ~players[g].is_paused
        /\ is_paused(vc[g]) => players[g].is_paused

\* C33: every step of /play, of a completion callback or of a retry that
\* calls the transport's play finds the transport idle: neither playing nor
\* paused.
PlayOnIdleTransport ==
    [][\A g \in Guilds :
           (/\ last'.g = g
            /\ last'.op \in {"play_resolved", "after", "retry_resolved"}
            /\ last'.path \in {"advance", "loop_one", "retry_ok",
                               "raised_advance", "raised_loop",
                               "raised_retry"})
               => vc[g].state \notin {"playing", "paused"}]_vars

\* C34: skip_next_callback is set only while a completion callback is still
\* outstanding on the guild's transport.
FlagHasPendingCallback ==
    \A g \in DOMAIN players :
        players[g].skip_next_callback => vc[g].pending > 0

\* C35: with loop mode off, when the track a /previous restored completes
\* (one callback outstanding, the transport idle, the suppression flag
\* clear) and play_next advances, the advance leaves the queue, the history
\* and the current track as the /previous found them.
PreviousRoundTrip ==
    [][\A g \in DOMAIN players :
           (/\ seen.back.on
            /\ seen.back.g = g
            /\ last'.op = "after"
            /\ last'.g = g
            /\ last'.path \in {"advance", "idle"}
            /\ vc[g].pending = 1
            /\ vc[g].state = "idle"
            /\ ~players[g].skip_next_callback
            /\ players[g].loop_mode = "off")
               => /\ g \in DOMAIN players'
                  /\ players'[g].queue = seen.back.queue
                  /\ players'[g].history = seen.back.history
                  /\ players'[g].current = seen.back.current]_vars

\* A /previous issued while a track played, with another still queued, has
\* been completed by the advance: the track it interrupted is current again.
PreviousRoundTripWitness ==
    /\ seen.back.done
    /\ last.op = "after"
    /\ last.path = "advance"
    /\ LoopMode(last.g) = "off"
    /\ seen.back.current # NoSong
    /\ seen.back.queue # <<>>
    /\ Queue(last.g) = seen.back.queue
    /\ Current(last.g) = seen.back.current

\* C36: whenever the transport is connected and idle, the queue is empty
\* and nothing is in flight for the guild (no /play resolving, no callback
\* outstanding, no coroutine scheduled), an idle timer is armed, so that
\* the session is torn down if no further request arrives.
IdleHasTimer ==
    \A g \in Guilds :
        (/\ vc[g].state = "idle"
         /\ vc[g].pending = 0
         /\ Queue(g) = <<>>
         /\ play_cmd[g].pc = "idle"
         /\ \A i \in DOMAIN tasks : tasks[i].g # g)
            => g \in DOMAIN disconnect_tasks

\* C37: when the idle timer's task is cancelled or replaced while its
\* teardown awaits the deletion of the control message, the teardown is
\* either complete (session removed, ledger entry removed, transport
\* disconnected) or has left no trace (the session in place, the transport
\* connected, and the control message the session and the ledger name still
\* there).
TeardownAllOrNothing ==
    [][\A g \in DOMAIN disconnect_tasks :
           (/\ disconnect_tasks[g].pc = "deleting"
            /\ \/ g \notin DOMAIN disconnect_tasks'
               \/ disconnect_tasks'[g].pc = "sleep")
               => \/ /\ g \notin DOMAIN players'
                     /\ g \notin DOMAIN ledger'
                     /\ ~is_connected(vc'[g])
                  \/ /\ g \in DOMAIN players'
                     /\ is_connected(vc'[g])
                     /\ players'[g].player_message \in messages' \cup {0}
                     /\ g \in DOMAIN ledger' => ledger'[g] \in messages']_vars

=============================================================================
